---- MODULE Spec2Model ----
(***************************************************************************)
(* MinResidMapper.get_coverage_map (catmap/mappers/min_resid_mapper.py):   *)
(* the sweep loop over the descriptor grid, the candidate generation of    *)
(* minresid_iteration, check_by_minresid and bisect_descriptor_line.       *)
(*                                                                         *)
(* Descriptor coordinates are integers in units fine enough that every     *)
(* midpoint the bisection can compute is exact.  A quantity is a token     *)
(* <<kind, point, n>>: a Boltzmann guess ("boltz", the n-th guess of the   *)
(* provider at point) or a solver result ("sol", the point it was solved   *)
(* at, n = position of its first entry in the coverage map).  The solver,  *)
(* the residual function and the initial-guess provider are external: each *)
(* call is a nondeterministic choice of its outcome.                       *)
(***************************************************************************)
EXTENDS Integers, Sequences, FiniteSets, TLC

\* ------------------------------------------------------------------ bounds
MaxBisections == 2
MaxRowBisections == 1
MaxResid == 2
MaxInitialGuesses == 2
MpPrec == 4
MaxSteps == 5
MaxMapLen == 3

\* --------------------------------------------------------- configuration
\* self.coverage_map / self.numbers_map is None: no map of a prior run.
NoMap == "None"

\* self.max_initial_guesses is None: no limit on the Boltzmann guesses.
NoLimit == -1

DefaultDirections ==
    << <<0, 0>>, <<0, 1>>, <<1, 0>>, <<0, -1>>, <<-1, 0>>,
       <<-1, 1>>, <<1, 1>>, <<1, -1>>, <<-1, -1>> >>

\* search_directions is a configuration option: the default stencil, the
\* self direction alone, and a list that names one neighbour twice.
SearchDirectionChoices ==
    { << <<0, 0>> >>,
      << <<0, -1>>, <<0, 0>>, <<0, -1>> >>,
      DefaultDirections }

\* For a row of cells: the list that names one neighbour twice, and a list
\* that reaches the two cells before a cell in its row.
RowSearchDirectionChoices ==
    { << <<0, -1>>, <<0, 0>>, <<0, -1>> >>,
      << <<0, 0>>, <<0, -1>>, <<0, -2>> >> }

extrapolate_coverages == FALSE

\* Number of halvings one call of bisect_descriptor_line can compute with
\* max_bisections = mb: 2^mb + 1 calls of get_next_valid_coverages, each
\* attempting at most mb - 1 midpoints, plus the midpoint computed before
\* the final raise.
HalvingDepth(mb) == IF mb = 0 THEN 0 ELSE (2 ^ mb + 1) * (mb - 1) + 1

\* Grid spacing, and the unit 10^-descriptor_decimal_precision, in
\* coordinate units.
Spacing ==
    2 ^ HalvingDepth(IF MaxBisections > MaxRowBisections THEN MaxBisections
                     ELSE MaxRowBisections)
Quantum == Spacing \div 4

\* <<d1Vals, d2Vals>> after the reversal (descending coordinate lists): a
\* single cell, a row of two cells, a column of two cells.
Grids ==
    { << <<0>>, <<0>> >>, << <<0>>, <<Spacing, 0>> >>,
      << <<Spacing, 0>>, <<0>> >> }

\* A row of three cells.
RowGrids == { << <<0>>, <<2 * Spacing, Spacing, 0>> >> }

\* For square grids: the default stencil, and the list that names one
\* neighbour twice.
SquareSearchDirectionChoices ==
    { DefaultDirections, << <<0, -1>>, <<0, 0>>, <<0, -1>> >> }

\* Squares: a single cell, two by two cells.
SquareGrids == { << <<0>>, <<0>> >>, << <<Spacing, 0>>, <<Spacing, 0>> >> }

\* Maps of a prior run, as <<self.coverage_map, self.numbers_map>>: none; a
\* coverage map without numbers map; maps with an entry between the grid
\* points and two entries at the first grid point of the row; maps with one
\* entry that is off the grid by less than half the rounding unit.
PriorOnGrid ==
    << << <<0, Spacing \div 2>>, <<"prior", <<0, Spacing \div 2>>, 1>> >>,
       << <<0, Spacing>>, <<"prior", <<0, Spacing>>, 2>> >>,
       << <<0, Spacing>>, <<"prior", <<0, Spacing>>, 3>> >> >>

PriorNearGrid == << << <<0, 1>>, <<"prior", <<0, 1>>, 1>> >> >>

PriorChoices ==
    { << NoMap, NoMap >>, << PriorOnGrid, NoMap >>,
      << PriorOnGrid, PriorOnGrid >>, << PriorNearGrid, PriorNearGrid >> }

\* The grid and the search directions of the runs that start from a prior map.
ResumeGrids == { << <<0>>, <<Spacing, 0>> >> }

ResumeSearchDirectionChoices == { << <<0, -1>>, <<0, 0>>, <<0, -1>> >> }

Resids == 1 .. MaxResid
NoResid == 0

\* ------------------------------------------------------------- utilities
\* np.round(x, descriptor_decimal_precision): nearest multiple of the unit,
\* ties to the even multiple.
RoundCoord(x) ==
    LET q == x \div Quantum
        r == x % Quantum
    IN  IF 2 * r < Quantum THEN q * Quantum
        ELSE IF 2 * r > Quantum THEN (q + 1) * Quantum
        ELSE IF q % 2 = 0 THEN q * Quantum
        ELSE (q + 1) * Quantum

RoundPoint(p) == << RoundCoord(p[1]), RoundCoord(p[2]) >>

NotFound == << "none", <<0, 0>>, 0 >>

\* retrieve_data(map, pt, precision): the quantity of the first entry whose
\* rounded point is the rounded pt, or None.
retrieve_data(map, pt) ==
    LET hits == {k \in DOMAIN map : RoundPoint(map[k][1]) = RoundPoint(pt)}
    IN  IF hits = {} THEN NotFound
        ELSE map[CHOOSE k \in hits : \A l \in hits : k <= l][2]

\* np.binary_repr(v): the binary digits of v, most significant first, with
\* no leading zero.
binary_repr(v) ==
    LET len == CHOOSE L \in 1 .. 20 : v < 2 ^ L /\ (L = 1 \/ v >= 2 ^ (L - 1))
    IN  [k \in 1 .. len |-> (v \div (2 ^ (len - k))) % 2]

\* int(s, 2) of a digit string.
RECURSIVE IntBase2Upto(_, _)
IntBase2Upto(bits, k) ==
    IF k = 0 THEN 0 ELSE 2 * IntBase2Upto(bits, k - 1) + bits[k]

IntBase2(bits) == IntBase2Upto(bits, Len(bits))

Ones(D) == [k \in 1 .. D |-> 1]

\* int('1' * D, 2)
maxNumOf(dirs) == IntBase2(Ones(Len(dirs)))

MappedSentinelPlusOne(mx) == mx + 1

\* int('1' + np.binary_repr(maxNum), 2): the value of a resolved cell.
MappedSentinelOf(mx) == IntBase2(<<1>> \o binary_repr(mx))

\* checked_dirs of a cell value: the digits, padded with leading zeros to
\* one digit per search direction.
CheckedDirsOf(v, D) ==
    LET b == binary_repr(v)
    IN  IF Len(b) < D THEN [k \in 1 .. (D - Len(b)) |-> 0] \o b ELSE b

MidpointKeep(a, b) == b

\* [(float(d1) + float(d2)) / float(2.0) for d1, d2 in zip(a, b)]
Midpoint(a, b) == << (a[1] + b[1]) \div 2, (a[2] + b[2]) \div 2 >>

\* ------------------------------------------------- mpmath float arithmetic
\* An mpf number is a binary float of mp.prec significant bits, here
\* << M, e >> for the value M * 2^e with M = 0 (and e = 0) or
\* 2^(MpPrec-1) <= |M| < 2^MpPrec.  Every operation returns the float
\* nearest to the exact result, ties to the even mantissa.
Abs(x) == IF x < 0 THEN -x ELSE x
Sign(x) == IF x < 0 THEN -1 ELSE 1

\* Number of binary digits of a > 0.
BitLen(a) == CHOOSE L \in 1 .. 30 : a < 2 ^ L /\ (L = 1 \/ a >= 2 ^ (L - 1))

\* The float nearest to N * 2^e.
mpf_normalize(N, e) ==
    IF N = 0 THEN << 0, 0 >>
    ELSE LET a == Abs(N)
             L == BitLen(a)
         IN  IF L <= MpPrec
             THEN << N * 2 ^ (MpPrec - L), e - (MpPrec - L) >>
             ELSE LET s == L - MpPrec
                      q == a \div (2 ^ s)
                      r == a % (2 ^ s)
                      half == 2 ^ (s - 1)
                      q2 == IF r > half \/ (r = half /\ q % 2 = 1)
                            THEN q + 1 ELSE q
                  IN  IF q2 = 2 ^ MpPrec
                      THEN << Sign(N) * 2 ^ (MpPrec - 1), e + s + 1 >>
                      ELSE << Sign(N) * q2, e + s >>

\* mpf(n) of an integer n.
mpf(n) == mpf_normalize(n, 0)

mpf_neg(x) == << -x[1], x[2] >>

\* x + y
mpf_add(x, y) ==
    IF x[1] = 0 THEN y
    ELSE IF y[1] = 0 THEN x
    ELSE LET e == IF x[2] < y[2] THEN x[2] ELSE y[2]
         IN  mpf_normalize(x[1] * 2 ^ (x[2] - e) + y[1] * 2 ^ (y[2] - e), e)

\* x - y
mpf_sub(x, y) == mpf_add(x, mpf_neg(y))

\* x * y
mpf_mul(x, y) == mpf_normalize(x[1] * y[1], x[2] + y[2])

\* mp.fdiv(x, y), y # 0: the quotient to MpPrec + 3 digits and a sticky
\* digit for the remainder, then rounded.
mpf_div(x, y) ==
    IF x[1] = 0 THEN << 0, 0 >>
    ELSE LET a == Abs(x[1]) * 2 ^ (MpPrec + 2)
             b == Abs(y[1])
             N == 2 * (a \div b) + (IF a % b = 0 THEN 0 ELSE 1)
         IN  mpf_normalize(Sign(x[1]) * Sign(y[1]) * N,
                           x[2] - y[2] - MpPrec - 3)

\* Largest r with r * r <= X.
isqrt(X) == CHOOSE r \in 0 .. 2 ^ (2 * MpPrec + 2) : r * r <= X /\ X < (r + 1) * (r + 1)

\* mp.sqrt(x), x >= 0: the root of the mantissa scaled by an even power of
\* two, with a sticky digit, then rounded.
mpf_sqrt(x) ==
    IF x[1] = 0 THEN << 0, 0 >>
    ELSE LET odd == x[2] % 2 = 1
             M == IF odd THEN 2 * x[1] ELSE x[1]
             e == IF odd THEN x[2] - 1 ELSE x[2]
             X == M * 2 ^ (2 * (MpPrec + 1))
             r == isqrt(X)
             N == 2 * r + (IF r * r = X THEN 0 ELSE 1)
         IN  mpf_normalize(N, (e \div 2) - (MpPrec + 1) - 1)

\* mp.matrix(a) - mp.matrix(b), element by element.
matrix_sub(a, b) == [k \in DOMAIN a |-> mpf_sub(a[k], b[k])]

\* mp.sqrt(mp.fsum([mp.power(y, 2) for y in dY])) for a list of two: the
\* squares are rounded, their sum is exact and rounded once.
norm2(dY) == mpf_sqrt(mpf_add(mpf_mul(dY[1], dY[1]), mpf_mul(dY[2], dY[2])))

extrapolateFromLast(descriptors0, quantities0, descriptors1, quantities1, descriptors2) ==
    LET dx == matrix_sub(quantities1, quantities0)
        dy == norm2(matrix_sub(descriptors1, descriptors0))
        dy2 == norm2(matrix_sub(descriptors2, descriptors1))
        slope == [k \in DOMAIN dx |-> mpf_div(dx[k], dy)]
    IN  [k \in DOMAIN quantities0 |->
            mpf_add(quantities0[k], mpf_mul(slope[k], dy2))]

\* extrapolate_coverages(descriptors0, quantities0, descriptors1,
\* quantities1, descriptors2)
extrapolate(descriptors0, quantities0, descriptors1, quantities1, descriptors2) ==
    LET dx == matrix_sub(quantities1, quantities0)
        dy == norm2(matrix_sub(descriptors1, descriptors0))
        dy2 == norm2(matrix_sub(descriptors2, descriptors0))
        slope == [k \in DOMAIN dx |-> mpf_div(dx[k], dy)]
    IN  [k \in DOMAIN quantities0 |->
            mpf_add(quantities0[k], mpf_mul(slope[k], dy2))]

\* ------------------------------------------------------------------ state
VARIABLES
    d1Vals, d2Vals,          \* the grid axes
    search_directions,       \* configuration
    max_bisections,
    max_initial_guesses,
    n_boltz,                 \* length of the provider's list of initial guesses
    maxNum,                  \* the cell value with every direction checked
    use_numbers_solver,      \* the alternate parameterization is active
    prior_coverage_map,      \* self.coverage_map of a prior run, or NoMap
    prior_numbers_map,       \* self.numbers_map of a prior run, or NoMap
    initial_guess_quantities,\* the entries of the prior run to seed from
    guess_k,                 \* position in initial_guess_quantities
    numbers_map,             \* self._numbers_map: sequence of <<point, quantity>>
    bisected,                \* history: check_by_minresid ran with bisect = True
    map_before,              \* history: the coverage map before deduplication
    boltz_visits,            \* history: [cell -> visits that made Boltzmann candidates]
    failed_seeds,            \* history: <<cell, source point>> of the neighbour seeds that failed
    isMapped,                \* [cell -> bitmask]
    coverage_map,            \* self._coverage_map: sequence of <<point, quantity>>
    norm_old, norm_new, n_unmapped, minresiditer,
    pc,                      \* position in get_coverage_map
    i, j,                    \* cell of minresid_iteration
    checked_dirs,
    possibilities,           \* sequence of <<resid, sol_pt, c>>
    possibilities_is_None,   \* the value returned by check_by_minresid was None
    bisect, i_poss, new_possibilities, tried,      \* check_by_minresid
    PCiter, solved_descriptors, current_quantity,  \* bisect_descriptor_line
    VCiter, current_descriptors, resid,            \* get_next_valid_coverages
    sweepStart,              \* history: isMapped when the current sweep began
    attempted,               \* history: the attempts of the current call
    map_len0,                \* history: Len(coverage_map) when the call began
    report,                  \* the final log message
    descriptors0, quantity0, \* extrapolate_coverages: the earlier solved pair
    descriptors1, quantity1, \* the later solved pair
    descriptors2,            \* the point to extrapolate to
    coverages2,              \* the value extrapolate_coverages returns
    descriptors,             \* get_point_coverage: the point asked for
    c0,                      \* the initial guess the caller passed, or None
    get_residual,            \* solver.get_residual on the quantities of the map
    initial_guesses,         \* the seeds get_initial_coverage_from_map returned
    cvgs,                    \* the quantity get_point_coverage returns
    tried_c0                 \* history: the c0 of every solver.get_coverage call

config == << d1Vals, d2Vals, search_directions, max_bisections,
             max_initial_guesses, n_boltz, maxNum, use_numbers_solver,
             prior_coverage_map, prior_numbers_map >>
pointvars == << descriptors, c0, get_residual, initial_guesses, cvgs, tried_c0 >>
apivars == << descriptors0, quantity0, descriptors1, quantity1, descriptors2,
             coverages2, pointvars >>
seedvars == << initial_guess_quantities, guess_k >>
mapvars == << coverage_map, numbers_map >>
histvars == << bisected, map_before, boltz_visits, failed_seeds >>
loopvars == << norm_old, norm_new, n_unmapped, minresiditer, sweepStart >>
cellvars == << i, j, checked_dirs >>
callvars == << bisect, i_poss, new_possibilities, tried, attempted, map_len0 >>
possvars == << possibilities, possibilities_is_None >>
bisvars == << PCiter, solved_descriptors, current_quantity >>
vcvars == << VCiter, current_descriptors, resid >>

vars == << config, apivars, seedvars, histvars, isMapped, mapvars, loopvars, pc,
           cellvars, possvars, callvars, bisvars, vcvars, report >>

m == Len(d1Vals)
n == Len(d2Vals)
D == Len(search_directions)
Cells == (0 .. m - 1) \X (0 .. n - 1)
MappedSentinel == MappedSentinelOf(maxNum)
GridPoint(a, b) == << d1Vals[a + 1], d2Vals[b + 1] >>
this_pt == GridPoint(i, j)

RECURSIVE SumSqUpto(_, _)
SumSqUpto(f, k) ==
    IF k = 0 THEN 0
    ELSE f[<< (k - 1) \div n, (k - 1) % n >>] * f[<< (k - 1) \div n, (k - 1) % n >>]
         + SumSqUpto(f, k - 1)

NormCount(f) == Cardinality({c \in DOMAIN f : f[c] # 0})

\* np.linalg.norm(isMapped), represented by its square (the comparison of
\* two norms is the comparison of their squares; -1 stands for itself).
Norm(f) == SumSqUpto(f, m * n)

Unbound == -1
NoPoint == << -1, -1 >>

\* The state when get_coverage_map has made isMapped and maxNum.
InitRun(grids, dirs, maxb) ==
    /\ \E g \in grids : d1Vals = g[1] /\ d2Vals = g[2]
    /\ search_directions \in dirs
    /\ max_bisections \in 0 .. maxb
    /\ max_initial_guesses \in (1 .. MaxInitialGuesses) \cup {NoLimit}
    /\ n_boltz \in {1, MaxInitialGuesses + 1}
    /\ maxNum = maxNumOf(search_directions)
    /\ initial_guess_quantities = << >> /\ guess_k = 0
    /\ numbers_map = << >>
    /\ bisected = FALSE /\ map_before = << >>
    /\ boltz_visits = [c \in (0 .. Len(d1Vals) - 1) \X (0 .. Len(d2Vals) - 1) |-> 0]
    /\ failed_seeds = {}
    /\ isMapped = [c \in (0 .. Len(d1Vals) - 1) \X (0 .. Len(d2Vals) - 1) |-> 0]
    /\ coverage_map = << >>
    /\ norm_new = 0
    /\ norm_old = -1
    /\ n_unmapped = 0
    /\ minresiditer = 0
    /\ sweepStart = isMapped
    /\ i = 0 /\ j = 0 /\ checked_dirs = << >>
    /\ possibilities = << >> /\ possibilities_is_None = FALSE
    /\ bisect = FALSE /\ i_poss = 1 /\ new_possibilities = << >>
    /\ tried = << >> /\ attempted = << >> /\ map_len0 = 0
    /\ PCiter = 0 /\ solved_descriptors = NoPoint /\ current_quantity = NotFound
    /\ VCiter = 0 /\ current_descriptors = NoPoint /\ resid = Unbound
    /\ report = "none"

\* extrapolate_coverages is not being called.
ExtrapIdle ==
    /\ descriptors0 = NoPoint /\ descriptors1 = NoPoint /\ descriptors2 = NoPoint
    /\ quantity0 = << >> /\ quantity1 = << >> /\ coverages2 = << >>

\* get_point_coverage is not being called.
PointIdle ==
    /\ descriptors = NoPoint /\ c0 = NotFound /\ get_residual = << >>
    /\ initial_guesses = << >> /\ cvgs = NotFound /\ tried_c0 = << >>

ApiIdle == ExtrapIdle /\ PointIdle

\* The state when the sweep loop of get_coverage_map is reached, with no map
\* of a prior run: a grid of `grids`, search directions of `dirs`,
\* max_bisections of 0 .. maxb.
InitWith(grids, dirs, maxb) ==
    /\ ApiIdle
    /\ use_numbers_solver = FALSE
    /\ prior_coverage_map = NoMap /\ prior_numbers_map = NoMap
    /\ pc = "loop"
    /\ InitRun(grids, dirs, maxb)

Init == InitWith(Grids, SearchDirectionChoices, MaxBisections)

RowInit == InitWith(RowGrids, RowSearchDirectionChoices, MaxRowBisections)

SquareInit ==
    InitWith(SquareGrids, SquareSearchDirectionChoices, MaxRowBisections)

\* The state at the branch on use_numbers_solver and self.coverage_map, for
\* either solver and every choice of prior maps.
ResumeInit ==
    /\ use_numbers_solver \in BOOLEAN
    /\ \E pr \in PriorChoices :
          prior_coverage_map = pr[1] /\ prior_numbers_map = pr[2]
    /\ pc = "start"
    /\ ApiIdle
    /\ InitRun(ResumeGrids, ResumeSearchDirectionChoices, MaxBisections)

\* Directions of a descriptor line, and the slopes of a quantity along it
\* per step of the line.
LineDirections == { <<0, 1>>, <<1, 0>>, <<1, 1>> }
LineSlopes == { -1, 1 }

\* The point k steps of direction v from point p.
LinePoint(p, v, k) == << p[1] + k * v[1], p[2] + k * v[2] >>

\* The state at a call of extrapolate_coverages: descriptors1 and
\* descriptors2 lie on one line from descriptors0, in the same direction, and
\* the two components of the quantity vary linearly along the line.  The
\* numbers are integers; the call takes them as floats.
ExtrapInit ==
    /\ use_numbers_solver = FALSE
    /\ prior_coverage_map = NoMap /\ prior_numbers_map = NoMap
    /\ pc = "extrapolate"
    /\ InitRun({ << <<0>>, <<0>> >> }, { << <<0, 0>> >> }, 0)
    /\ descriptors0 \in { <<0, 0>>, <<1, 0>> }
    /\ quantity0 \in { << 0, 2 >>, << 1, 3 >> }
    /\ \E v \in LineDirections, k1 \in 1 .. MaxSteps, k2 \in 1 .. 2 * MaxSteps,
          b1 \in LineSlopes, b2 \in LineSlopes :
          /\ descriptors1 = LinePoint(descriptors0, v, k1)
          /\ descriptors2 = LinePoint(descriptors0, v, k2)
          /\ quantity1 = << quantity0[1] + b1 * k1, quantity0[2] + b2 * k1 >>
    /\ coverages2 = << >>
    /\ PointIdle

\* The points of the maps get_point_coverage is called with, and the points
\* it is asked for: one of the map's, one that rounds to one of the map's,
\* one that is not in the map.
PointMapPoints == { <<0, Spacing>>, <<Spacing, 0>> }
PointQueries == { <<0, Spacing>>, <<0, Spacing + 1>>, <<0, 0>> }

\* The maps of up to len solved points.
PointMaps(len) ==
    UNION { { [k \in 1 .. L |-> << pts[k], << "sol", pts[k], k >> >>] :
                pts \in [1 .. L -> PointMapPoints] } : L \in 0 .. len }

\* The state at a call of get_point_coverage after a run: a map of solved
\* points, the residual of each of its quantities, a point to solve and
\* the caller's initial guess, if any.
PointInit ==
    /\ use_numbers_solver \in BOOLEAN
    /\ prior_coverage_map = NoMap /\ prior_numbers_map = NoMap
    /\ pc = "point"
    /\ ExtrapIdle
    /\ d1Vals = << 0 >> /\ d2Vals = << 0 >>
    /\ search_directions = << <<0, 0>> >>
    /\ max_bisections = 0
    /\ max_initial_guesses \in (1 .. MaxInitialGuesses) \cup {NoLimit}
    /\ n_boltz = 1
    /\ maxNum = maxNumOf(search_directions)
    /\ initial_guess_quantities = << >> /\ guess_k = 0
    /\ coverage_map \in PointMaps(MaxMapLen)
    /\ numbers_map = IF use_numbers_solver THEN coverage_map ELSE << >>
    /\ bisected = FALSE /\ map_before = << >>
    /\ boltz_visits = [c \in { <<0, 0>> } |-> 0]
    /\ failed_seeds = {}
    /\ isMapped = [c \in { <<0, 0>> } |-> MappedSentinelOf(maxNum)]
    /\ norm_new = 0 /\ norm_old = 0 /\ n_unmapped = 0 /\ minresiditer = 1
    /\ sweepStart = isMapped
    /\ i = 0 /\ j = 0 /\ checked_dirs = << >>
    /\ possibilities = << >> /\ possibilities_is_None = FALSE
    /\ bisect = FALSE /\ i_poss = 1 /\ new_possibilities = << >>
    /\ tried = << >> /\ attempted = << >> /\ map_len0 = 0
    /\ PCiter = 0 /\ solved_descriptors = NoPoint /\ current_quantity = NotFound
    /\ VCiter = 0 /\ current_descriptors = NoPoint /\ resid = Unbound
    /\ report = "none"
    /\ descriptors \in PointQueries
    /\ c0 \in { NotFound, << "guess", descriptors, 0 >> }
    /\ get_residual \in [{coverage_map[k][2] : k \in DOMAIN coverage_map} -> Resids]
    /\ initial_guesses = << >> /\ cvgs = NotFound /\ tried_c0 = << >>

\* ----------------------------------------- the branch on a prior run's maps
\* self._numbers_map.append([this_pt, point_numbers]), with the numbers solver.
RecordNumbers(nmap, pt, q) ==
    IF use_numbers_solver THEN Append(nmap, << pt, q >>) ELSE nmap

\* list < list of Python, on two points.
PointLess(p, q) == p[1] < q[1] \/ (p[1] = q[1] /\ p[2] < q[2])

\* [point, quantity] < [point, quantity]: by the points, then by the
\* quantities (a quantity token stands for a list of numbers; its number
\* orders it among the quantities of a point).
EntryLess(e, f) ==
    PointLess(e[1], f[1]) \/ (e[1] = f[1] /\ e[2][3] < f[2][3])

\* sorted(initial_guess_coverage_map), then reverse(): the entries in
\* descending order.
SortedReversed(seq) ==
    [r \in 1 .. Len(seq) |->
        seq[CHOOSE k \in DOMAIN seq :
                Cardinality({l \in DOMAIN seq :
                                EntryLess(seq[k], seq[l])}) = r - 1]]

ResumeUnsupportedWithNumbers ==
    /\ use_numbers_solver
    /\ prior_coverage_map # NoMap
    /\ prior_numbers_map # NoMap

\* The numbers solver with a coverage map but no numbers map of a prior run.
ResumeUnsupported ==
    /\ use_numbers_solver
    /\ prior_coverage_map # NoMap
    /\ prior_numbers_map = NoMap

\* if self.use_numbers_solver and self.coverage_map is not None: ... the four
\* branches, then the choice of initial_guess_quantities.
Setup ==
    /\ pc = "start"
    /\ IF ResumeUnsupported
       THEN /\ pc' = "aborted"
            /\ report' = "NotImplementedError"
            /\ UNCHANGED << seedvars, mapvars >>
       ELSE /\ coverage_map' = << >>
            /\ numbers_map' = << >>
            /\ initial_guess_quantities' =
                  IF prior_coverage_map = NoMap \/ prior_coverage_map = << >>
                  THEN << >>
                  ELSE IF use_numbers_solver THEN prior_numbers_map
                  ELSE SortedReversed(prior_coverage_map)
            /\ guess_k' = 1
            /\ pc' = "seed"
            /\ UNCHANGED report
    /\ UNCHANGED << config, apivars, histvars, isMapped, loopvars, cellvars, possvars,
                    callvars, bisvars, vcvars >>

InSeedLoop == pc = "seed" /\ guess_k <= Len(initial_guess_quantities)
seed_point == initial_guess_quantities[guess_k][1]

\* np.round(point[0], n) in [np.round(d1V, n) for d1V in d1Vals] and the same
\* for point[1] and d2Vals.
SeedOnGrid ==
    /\ \E a \in DOMAIN d1Vals : RoundCoord(d1Vals[a]) = RoundCoord(seed_point[1])
    /\ \E b \in DOMAIN d2Vals : RoundCoord(d2Vals[b]) = RoundCoord(seed_point[2])

SeedCellOrigin == << 0, 0 >>

\* [...].index(np.round(point[.], n)): the first cell whose rounded
\* coordinates are the rounded point's.
SeedCell ==
    << (CHOOSE a \in DOMAIN d1Vals :
            /\ RoundCoord(d1Vals[a]) = RoundCoord(seed_point[1])
            /\ \A a2 \in 1 .. (a - 1) :
                  RoundCoord(d1Vals[a2]) # RoundCoord(seed_point[1])) - 1,
       (CHOOSE b \in DOMAIN d2Vals :
            /\ RoundCoord(d2Vals[b]) = RoundCoord(seed_point[2])
            /\ \A b2 \in 1 .. (b - 1) :
                  RoundCoord(d2Vals[b2]) # RoundCoord(seed_point[2])) - 1 >>

\* get_point_output(point, guess_coverage) returns: the entry is appended
\* under the prior run's point and the cell is Mapped.
SeedOk ==
    /\ InSeedLoop
    /\ SeedOnGrid
    /\ coverage_map' =
          Append(coverage_map,
                 << seed_point, << "sol", seed_point, Len(coverage_map) + 1 >> >>)
    /\ numbers_map' =
          RecordNumbers(numbers_map, seed_point,
                        << "sol", seed_point, Len(coverage_map) + 1 >>)
    /\ isMapped' = [isMapped EXCEPT ![SeedCell] = MappedSentinel]
    /\ guess_k' = guess_k + 1
    /\ UNCHANGED << config, apivars, initial_guess_quantities, histvars, loopvars, pc,
                    cellvars, possvars, callvars, bisvars, vcvars, report >>

\* get_point_output raises ValueError (initial_fail).
SeedFail ==
    /\ InSeedLoop
    /\ SeedOnGrid
    /\ guess_k' = guess_k + 1
    /\ UNCHANGED << config, apivars, initial_guess_quantities, histvars, isMapped,
                    mapvars, loopvars, pc, cellvars, possvars, callvars,
                    bisvars, vcvars, report >>

\* The point is not a point of the grid (initial_invalid).
SeedInvalid ==
    /\ InSeedLoop
    /\ ~SeedOnGrid
    /\ guess_k' = guess_k + 1
    /\ UNCHANGED << config, apivars, initial_guess_quantities, histvars, isMapped,
                    mapvars, loopvars, pc, cellvars, possvars, callvars,
                    bisvars, vcvars, report >>

\* The entries of the prior run are used up:
\* norm_new = np.linalg.norm(isMapped), norm_old = -1, minresiditer = 0.
SeedDone ==
    /\ pc = "seed"
    /\ guess_k > Len(initial_guess_quantities)
    /\ norm_new' = Norm(isMapped)
    /\ norm_old' = -1
    /\ minresiditer' = 0
    /\ sweepStart' = isMapped
    /\ pc' = "loop"
    /\ UNCHANGED << config, apivars, seedvars, histvars, isMapped, mapvars, n_unmapped,
                    cellvars, possvars, callvars, bisvars, vcvars, report >>

\* --------------------------------------------------- the outer sweep loop
LoopTestGE == norm_new >= norm_old

\* while norm_new > norm_old
LoopTest == norm_new > norm_old

CountUnmappedStrict(im) == Cardinality({c \in Cells : im[c] < maxNum})

\* n_unmapped: the cells with isMapped[i,j] <= maxNum.
CountUnmapped(im) == Cardinality({c \in Cells : im[c] <= maxNum})

\* while norm_new > norm_old: count the unmapped cells, then start a sweep.
SweepBegin ==
    /\ pc = "loop"
    /\ LoopTest
    /\ n_unmapped' = CountUnmapped(isMapped)
    /\ minresiditer' = minresiditer + 1
    /\ norm_old' = Norm(isMapped)
    /\ sweepStart' = isMapped
    /\ i' = 0 /\ j' = 0
    /\ pc' = "cell"
    /\ UNCHANGED << config, apivars, seedvars, histvars, isMapped, mapvars, norm_new, checked_dirs,
                    possvars, callvars, bisvars, vcvars, report >>

\* The loop is left: mapper_success / mapper_fail.
Report ==
    /\ pc = "loop"
    /\ ~LoopTest
    /\ report' = IF n_unmapped = 0 THEN "mapper_success" ELSE "mapper_fail"
    /\ pc' = "dedup"
    /\ UNCHANGED << config, apivars, seedvars, histvars, isMapped, mapvars, loopvars, cellvars,
                    possvars, callvars, bisvars, vcvars >>

\* nodups: the entries whose point is not the point of an earlier entry
\* (exact list equality of points), in map order.
nodupsSorted(map) ==
    LET kept == {k \in DOMAIN map : \A l \in 1 .. (k - 1) : map[l][1] # map[k][1]}
    IN  [r \in 1 .. Cardinality(kept) |->
            map[CHOOSE k \in kept :
                    Cardinality({l \in kept : EntryLess(map[l], map[k])}) = r - 1]]

nodupsReversed(map) ==
    LET kept == {k \in DOMAIN map : \A l \in 1 .. (k - 1) : map[l][1] # map[k][1]}
    IN  [r \in 1 .. Cardinality(kept) |->
            map[CHOOSE k \in kept : Cardinality({l \in kept : l >= k}) = r]]

nodupsKeepLast(map) ==
    LET kept == {k \in DOMAIN map :
                    \A l \in (k + 1) .. Len(map) : map[l][1] # map[k][1]}
    IN  [r \in 1 .. Cardinality(kept) |->
            map[CHOOSE k \in kept : Cardinality({l \in kept : l <= k}) = r]]

nodups(map) ==
    LET kept == {k \in DOMAIN map : \A l \in 1 .. (k - 1) : map[l][1] # map[k][1]}
    IN  [r \in 1 .. Cardinality(kept) |->
            map[CHOOSE k \in kept : Cardinality({l \in kept : l <= k}) = r]]

\* nodups_numbers: for every kept point, the quantity retrieve_data finds for
\* it in the numbers map.
nodups_numbers(kept, nmap) ==
    [r \in DOMAIN kept |-> << kept[r][1], retrieve_data(nmap, kept[r][1]) >>]

\* self._coverage_map = nodups; with the numbers solver,
\* self.numbers_map = nodups_numbers.
Deduplicate ==
    /\ pc = "dedup"
    /\ coverage_map' = nodups(coverage_map)
    /\ numbers_map' = IF use_numbers_solver
                      THEN nodups_numbers(nodups(coverage_map), numbers_map)
                      ELSE numbers_map
    /\ map_before' = coverage_map
    /\ pc' = "done"
    /\ UNCHANGED << config, apivars, seedvars, bisected, boltz_visits, failed_seeds, isMapped, loopvars, cellvars,
                    possvars, callvars, bisvars, vcvars, report >>

\* ------------------------------------------------------ minresid_iteration
\* (i, j) is the last cell of the sweep.
LastCell == i = m - 1 /\ j = n - 1

NextCellSame == << i, j >>

NextCellColumnMajor == IF i = m - 1 THEN << 0, j + 1 >> ELSE << i + 1, j >>

\* for i in range(m): for j in range(n): the cell after (i, j).
NextCell == IF j = n - 1 THEN << i + 1, 0 >> ELSE << i, j + 1 >>

\* Leave cell (i, j) with the cell values `mapped`: go to the next cell, or
\* end the sweep (norm_new = np.linalg.norm(isMapped)).
Advance(mapped) ==
    /\ isMapped' = mapped
    /\ IF LastCell
       THEN /\ norm_new' = Norm(mapped)
            /\ pc' = "loop"
            /\ UNCHANGED << i, j >>
       ELSE /\ pc' = "cell"
            /\ i' = NextCell[1]
            /\ j' = NextCell[2]
            /\ UNCHANGED norm_new

UnfoundOrExhausted(v) == v <= maxNum

\* if isMapped[i,j] < maxNum: the point has not been found yet
Unfound(v) == v < maxNum

\* isMapped[i,j] >= maxNum: the cell is not examined.
CellSkip ==
    /\ pc = "cell"
    /\ ~Unfound(isMapped[<<i, j>>])
    /\ Advance(isMapped)
    /\ UNCHANGED << config, apivars, seedvars, histvars, mapvars, norm_old, n_unmapped, minresiditer,
                    sweepStart, checked_dirs, possvars, callvars, bisvars,
                    vcvars, report >>

BoltzGuessesUncut(pt) == [g \in 1 .. n_boltz |-> << "boltz", pt, g >>]

\* boltz_cvgs: the provider's guesses, cut to max_initial_guesses unless that
\* is None.
BoltzGuesses(pt) ==
    LET len == IF max_initial_guesses = NoLimit THEN n_boltz
               ELSE IF n_boltz < max_initial_guesses THEN n_boltz
               ELSE max_initial_guesses
    IN  [g \in 1 .. len |-> << "boltz", pt, g >>]

\* The pass of the loop over search_directions for direction k, with chk the
\* checked_dirs read from the cell value: what the pass finds.  (A pass
\* reads and writes only its own entry of checked_dirs.)
DirectionFinds(k, chk) ==
    LET solx == i + search_directions[k][1]
        soly == j + search_directions[k][2]
    IN  IF solx < m /\ solx >= 0 /\ soly < n /\ soly >= 0 /\ chk[k] = 0
        THEN IF GridPoint(solx, soly) # this_pt
             THEN IF retrieve_data(coverage_map, GridPoint(solx, soly)) # NotFound
                  THEN "neighbour"
                  ELSE "nothing"
             ELSE "self"
        ELSE "checked"

DirectionCheckedAlways(k, chk) == 1

\* checked_dirs[k] after the pass: left 0 only for a neighbour without entry.
DirectionChecked(k, chk) ==
    IF DirectionFinds(k, chk) = "nothing" THEN 0 ELSE 1

\* The <<sol_pt, quantity>> pairs the pass appends to possibilities.
DirectionCandidates(k, chk) ==
    LET sol_pt_k == GridPoint(i + search_directions[k][1],
                              j + search_directions[k][2])
    IN  IF DirectionFinds(k, chk) = "neighbour"
        THEN << << sol_pt_k, retrieve_data(coverage_map, sol_pt_k) >> >>
        ELSE IF DirectionFinds(k, chk) = "self"
        THEN [g \in 1 .. Len(BoltzGuesses(this_pt)) |->
                 << sol_pt_k, BoltzGuesses(this_pt)[g] >>]
        ELSE << >>

RECURSIVE CandidatesUpto(_, _)
CandidatesUpto(k, chk) ==
    IF k = 0 THEN << >>
    ELSE CandidatesUpto(k - 1, chk) \o DirectionCandidates(k, chk)

\* Entry of check_by_minresid(poss, this_pt, bisect = b).
CallCheckByMinresid(poss, b) ==
    /\ possibilities' = poss
    /\ possibilities_is_None' = FALSE
    /\ bisect' = b
    /\ i_poss' = 1
    /\ new_possibilities' = << >>
    /\ tried' = << >>
    /\ attempted' = << >>
    /\ map_len0' = Len(coverage_map)
    /\ pc' = "minresid"

\* isMapped[i,j] < maxNum: build the possibilities of the cell from the
\* directions not yet checked, each with the residual the solver reports for
\* it, and call check_by_minresid without bisection.
CellVisit ==
    /\ pc = "cell"
    /\ Unfound(isMapped[<<i, j>>])
    /\ LET chk == CheckedDirsOf(isMapped[<<i, j>>], D)
           found == CandidatesUpto(D, chk)
       IN  /\ checked_dirs' = [k \in 1 .. D |-> DirectionChecked(k, chk)]
           /\ \E rs \in [1 .. Len(found) -> Resids] :
                CallCheckByMinresid(
                    [c \in 1 .. Len(found) |->
                        << rs[c], found[c][1], found[c][2] >>],
                    FALSE)
           /\ boltz_visits' =
                 IF \E c \in DOMAIN found : found[c][2][1] = "boltz"
                 THEN [boltz_visits EXCEPT ![<<i, j>>] = @ + 1]
                 ELSE boltz_visits
    /\ UNCHANGED << config, apivars, seedvars, bisected, map_before, failed_seeds, isMapped, mapvars, loopvars, i, j, bisvars,
                    vcvars, report >>

\* ------------------------------------------------------- check_by_minresid
Range(seq) == {seq[k] : k \in DOMAIN seq}

InLoop == pc = "minresid" /\ i_poss <= Len(possibilities)
poss_r == possibilities[i_poss][1]
sol_pt == possibilities[i_poss][2]
poss_c == possibilities[i_poss][3]

Attempt(how, ok) ==
    [r |-> poss_r, sol_pt |-> sol_pt, c |-> poss_c, how |-> how, ok |-> ok]

TriedNever == tried

\* if sol_pt != this_pt: tried.append(sol_pt)
TriedAfter == IF sol_pt # this_pt THEN Append(tried, sol_pt) ELSE tried

\* End of one pass of the loop over the possibilities.
NextPossibility ==
    /\ tried' = TriedAfter
    /\ i_poss' = i_poss + 1
    /\ pc' = "minresid"

\* return None
ReturnNone ==
    /\ possibilities_is_None' = TRUE
    /\ possibilities' = << >>
    /\ pc' = "returned"

RecordPointMissing(map, pt, q) == map

\* self._coverage_map.append([this_pt, point_coverages])
RecordPoint(map, pt, q) == Append(map, << pt, q >>)

\* A handler for which a failed bisection ends the loop over the candidates.
ExceptValueErrorBreak(parsed) ==
    /\ new_possibilities' =
         IF parsed # NoResid /\ this_pt # sol_pt
         THEN Append(new_possibilities, << parsed, sol_pt, poss_c >>)
         ELSE new_possibilities
    /\ IF bisect
       THEN /\ tried' = TriedAfter
            /\ i_poss' = Len(possibilities) + 1
            /\ pc' = "minresid"
       ELSE NextPossibility

ExceptValueErrorQueueAll(parsed) ==
    /\ new_possibilities' =
         IF parsed # NoResid
         THEN Append(new_possibilities, << parsed, sol_pt, poss_c >>)
         ELSE new_possibilities
    /\ NextPossibility

\* except ValueError: the residual is parsed from the message (parsed =
\* NoResid when the message holds none); a candidate of another point is
\* queued again with it.
ExceptValueError(parsed) ==
    /\ new_possibilities' =
         IF parsed # NoResid /\ this_pt # sol_pt
         THEN Append(new_possibilities, << parsed, sol_pt, poss_c >>)
         ELSE new_possibilities
    /\ NextPossibility

\* sol_pt in tried: the candidate is passed over.
MinresidSkipTried ==
    /\ InLoop
    /\ sol_pt \in Range(tried)
    /\ NextPossibility
    /\ UNCHANGED << config, apivars, seedvars, histvars, isMapped, mapvars, loopvars, cellvars,
                    possvars, bisect, new_possibilities, attempted, map_len0,
                    bisvars, vcvars, report >>

\* get_point_output(this_pt, c) returns: the entry is appended, return None.
MinresidSolveOk ==
    /\ InLoop
    /\ sol_pt \notin Range(tried)
    /\ bisect = FALSE \/ this_pt = sol_pt
    /\ coverage_map' = RecordPoint(coverage_map, this_pt,
                                   << "sol", this_pt, Len(coverage_map) + 1 >>)
    /\ numbers_map' = RecordNumbers(numbers_map, this_pt,
                                    << "sol", this_pt, Len(coverage_map) + 1 >>)
    /\ attempted' = Append(attempted, Attempt("solve", TRUE))
    /\ ReturnNone
    /\ UNCHANGED << config, apivars, seedvars, histvars, isMapped, loopvars, cellvars,
                    bisect, i_poss, new_possibilities, tried, map_len0,
                    bisvars, vcvars, report >>

\* get_point_output(this_pt, c) raises ValueError.
MinresidSolveFail ==
    /\ InLoop
    /\ sol_pt \notin Range(tried)
    /\ bisect = FALSE \/ this_pt = sol_pt
    /\ attempted' = Append(attempted, Attempt("solve", FALSE))
    /\ \E parsed \in Resids \cup {NoResid} : ExceptValueError(parsed)
    /\ UNCHANGED << config, apivars, seedvars, histvars, isMapped, mapvars, loopvars, cellvars,
                    possvars, bisect, map_len0, bisvars, vcvars, report >>

\* bisect_descriptor_line(this_pt, sol_pt, c) is entered.
MinresidBisect ==
    /\ InLoop
    /\ sol_pt \notin Range(tried)
    /\ ~(bisect = FALSE \/ this_pt = sol_pt)
    /\ PCiter' = 0
    /\ solved_descriptors' = sol_pt
    /\ current_quantity' = poss_c
    /\ pc' = "PCloop"
    /\ UNCHANGED << config, apivars, seedvars, histvars, isMapped, mapvars, loopvars, cellvars,
                    possvars, callvars, vcvars, report >>

\* The loop over the possibilities ends: return new_possibilities.
MinresidReturnList ==
    /\ pc = "minresid"
    /\ i_poss > Len(possibilities)
    /\ possibilities' = new_possibilities
    /\ possibilities_is_None' = FALSE
    /\ pc' = "returned"
    /\ UNCHANGED << config, apivars, seedvars, histvars, isMapped, mapvars, loopvars, cellvars,
                    callvars, bisvars, vcvars, report >>

\* The neighbour seeds that failed in the call of check_by_minresid that
\* has returned, with the cell they failed for.
FailedNow ==
    {<< <<i, j>>, attempted[a].sol_pt >> :
        a \in {b \in DOMAIN attempted :
                  ~attempted[b].ok /\ attempted[b].sol_pt # this_pt}}

BisectionAlways == TRUE

\* self.max_bisections > 0
BisectionEnabled == max_bisections > 0

\* if possibilities and self.max_bisections > 0: check_by_minresid again,
\* bisect = True.
RetryWithBisection ==
    /\ pc = "returned"
    /\ bisect = FALSE
    /\ ~possibilities_is_None /\ possibilities # << >>
    /\ BisectionEnabled
    /\ CallCheckByMinresid(possibilities, TRUE)
    /\ bisected' = TRUE
    /\ failed_seeds' = failed_seeds \cup FailedNow
    /\ UNCHANGED << config, apivars, seedvars, map_before, boltz_visits, isMapped, mapvars, loopvars,
                    cellvars, bisvars, vcvars, report >>

\* The cell value after the attempts: the Mapped sentinel when resolved,
\* else the checked directions.
CellValueAfter ==
    LET v == IF possibilities_is_None THEN MappedSentinel
             ELSE isMapped[<<i, j>>]
    IN  IF v < maxNum THEN IntBase2(checked_dirs) ELSE v

\* The locals of the calls made for a cell end with the visit of the cell.
LocalsEnd ==
    /\ checked_dirs' = << >>
    /\ possibilities' = << >> /\ possibilities_is_None' = FALSE
    /\ bisect' = FALSE /\ i_poss' = 1 /\ new_possibilities' = << >>
    /\ tried' = << >> /\ attempted' = << >> /\ map_len0' = 0
    /\ PCiter' = 0 /\ solved_descriptors' = NoPoint
    /\ current_quantity' = NotFound
    /\ VCiter' = 0 /\ current_descriptors' = NoPoint /\ resid' = Unbound

CellEnd ==
    /\ pc = "returned"
    /\ ~(/\ bisect = FALSE
         /\ ~possibilities_is_None /\ possibilities # << >>
         /\ BisectionEnabled)
    /\ Advance([isMapped EXCEPT ![<<i, j>>] = CellValueAfter])
    /\ LocalsEnd
    /\ failed_seeds' = failed_seeds \cup FailedNow
    /\ UNCHANGED << config, apivars, seedvars, bisected, map_before, boltz_visits, mapvars, norm_old, n_unmapped, minresiditer,
                    sweepStart, report >>

\* ---------------------------------------------------- bisect_descriptor_line
\* while PCconverged == False and PCiter <= 2**max_bisections: the next call
\* of get_next_valid_coverages(new_descriptors, solved_descriptors, quantity);
\* when the loop ends unconverged, ValueError("... bisections were not
\* sufficient ..."), a message without a residual.
PCLoop ==
    /\ pc = "PCloop"
    /\ IF PCiter <= 2 ^ max_bisections
       THEN /\ PCiter' = PCiter + 1
            /\ VCiter' = 0
            /\ current_descriptors' = this_pt
            /\ resid' = Unbound
            /\ pc' = "VCloop"
            /\ UNCHANGED << possvars, callvars, solved_descriptors,
                            current_quantity >>
       ELSE /\ attempted' = Append(attempted, Attempt("bisect", FALSE))
            /\ ExceptValueError(NoResid)
            /\ UNCHANGED << possvars, bisect, map_len0, bisvars, vcvars >>
    /\ UNCHANGED << config, apivars, seedvars, histvars, isMapped, mapvars, loopvars, cellvars,
                    report >>

\* VCiter += 1
VCiterNext == VCiter + 1

RecordSolvedAtTarget(map, pt, q) ==
    IF pt = this_pt THEN Append(map, << pt, q >>) ELSE map

\* self._coverage_map.append([solved_descriptors, current_quantity])
RecordSolved(map, pt, q) == Append(map, << pt, q >>)

\* get_point_output(current_descriptors, quantity) returns: the solved point
\* is appended; at the target the bisection returns and check_by_minresid
\* appends the target's entry and returns None.
VCSolveOk ==
    /\ pc = "VCloop"
    /\ VCiter < max_bisections
    /\ VCiter' = VCiterNext
    /\ LET q == << "sol", current_descriptors, Len(coverage_map) + 1 >>
           map1 == RecordSolved(coverage_map, current_descriptors, q)
           nmap1 == RecordNumbers(numbers_map, current_descriptors, q)
       IN  /\ solved_descriptors' = current_descriptors
           /\ IF current_descriptors = this_pt
              THEN /\ current_quantity' = q
                   /\ coverage_map' = RecordPoint(map1, this_pt, q)
                   /\ numbers_map' = RecordNumbers(nmap1, this_pt, q)
                   /\ attempted' = Append(attempted, Attempt("bisect", TRUE))
                   /\ ReturnNone
              ELSE /\ current_quantity' =
                        IF extrapolate_coverages
                        THEN << "extrap", this_pt, Len(map1) >>
                        ELSE q
                   /\ coverage_map' = map1
                   /\ numbers_map' = nmap1
                   /\ pc' = "PCloop"
                   /\ UNCHANGED << attempted, possvars >>
    /\ UNCHANGED << config, apivars, seedvars, histvars, isMapped, loopvars, cellvars,
                    bisect, i_poss, new_possibilities, tried, map_len0, PCiter,
                    current_descriptors, resid, report >>

\* get_point_output raises ValueError: the residual is recorded and the
\* point is moved halfway to the solved one.
VCSolveFail ==
    /\ pc = "VCloop"
    /\ VCiter < max_bisections
    /\ VCiter' = VCiterNext
    /\ resid' \in Resids
    /\ current_descriptors' = Midpoint(solved_descriptors, current_descriptors)
    /\ UNCHANGED << config, apivars, seedvars, histvars, isMapped, mapvars, loopvars, pc, cellvars,
                    possvars, callvars, bisvars, report >>

\* The inner loop ends unconverged: ValueError("Could not find a valid
\* solution ... (resid=...)").  With no pass of the loop resid is unbound and
\* the raise itself fails with an error that no handler catches.
VCExhausted ==
    /\ pc = "VCloop"
    /\ ~(VCiter < max_bisections)
    /\ IF resid = Unbound
       THEN /\ pc' = "escaped"
            /\ UNCHANGED << callvars, possvars >>
       ELSE /\ attempted' = Append(attempted, Attempt("bisect", FALSE))
            /\ ExceptValueError(resid)
            /\ UNCHANGED << possvars, bisect, map_len0 >>
    /\ UNCHANGED << config, apivars, seedvars, histvars, isMapped, mapvars, loopvars, cellvars,
                    bisvars, vcvars, report >>

\* ------------------------------------------------------ extrapolate_coverages
\* The integers of a list as floats.
mpf_list(a) == [k \in DOMAIN a |-> mpf(a[k])]

\* current_quantity = extrapolate_coverages(descriptors0, quantity0,
\* descriptors1, quantity1, current_descriptors)
Extrapolate ==
    /\ pc = "extrapolate"
    /\ coverages2' = extrapolate(mpf_list(descriptors0), mpf_list(quantity0),
                                 mpf_list(descriptors1), mpf_list(quantity1),
                                 mpf_list(descriptors2))
    /\ pc' = "extrapolated"
    /\ UNCHANGED << config, seedvars, histvars, isMapped, mapvars, loopvars,
                    cellvars, possvars, callvars, bisvars, vcvars, report,
                    descriptors0, quantity0, descriptors1, quantity1,
                    descriptors2, pointvars >>

\* ------------------------------------------------------- get_point_coverage
\* [resid, cvgs] < [resid, cvgs] of Python: by the residuals, then by the
\* quantities (a quantity token's number orders it among the quantities).
ResidCvgLess(a, b) == a[1] < b[1] \/ (a[1] = b[1] /\ a[2][3] < b[2][3])

\* resid_cvg after resid_cvg.sort().
resid_cvg ==
    LET unsorted == [k \in DOMAIN coverage_map |->
                        << get_residual[coverage_map[k][2]], coverage_map[k][2] >>]
    IN  [r \in DOMAIN unsorted |->
            unsorted[CHOOSE k \in DOMAIN unsorted :
                        Cardinality({l \in DOMAIN unsorted :
                                        ResidCvgLess(unsorted[l], unsorted[k])})
                            = r - 1]]

\* max_len = max(self.max_initial_guesses, len(resid_cvg)) when
\* max_initial_guesses is set, len(resid_cvg) otherwise.
max_len ==
    IF max_initial_guesses # NoLimit
    THEN IF max_initial_guesses > Len(resid_cvg) THEN max_initial_guesses
         ELSE Len(resid_cvg)
    ELSE Len(resid_cvg)

\* get_initial_coverage_from_map: cvgs[:max_len] of the sorted list.
get_initial_coverage_from_map ==
    [k \in 1 .. (IF max_len < Len(resid_cvg) THEN max_len ELSE Len(resid_cvg))
        |-> resid_cvg[k][2]]

\* current = self.retrieve_data(...), of the numbers map with the numbers
\* solver and of the coverage map otherwise.
current ==
    IF use_numbers_solver THEN retrieve_data(numbers_map, descriptors)
    ELSE retrieve_data(coverage_map, descriptors)

\* if current: return current
PointStored ==
    /\ pc = "point"
    /\ current # NotFound
    /\ cvgs' = current
    /\ pc' = "point_returned"
    /\ UNCHANGED << config, seedvars, histvars, isMapped, mapvars, loopvars,
                    cellvars, possvars, callvars, bisvars, vcvars, report,
                    descriptors0, quantity0, descriptors1, quantity1,
                    descriptors2, coverages2, descriptors, c0, get_residual,
                    initial_guesses, tried_c0 >>

\* The caller passed an initial guess: one call of the solver, which
\* converges.
PointDirectOk ==
    /\ pc = "point"
    /\ current = NotFound
    /\ c0 # NotFound
    /\ tried_c0' = Append(tried_c0, c0)
    /\ cvgs' = << "sol", descriptors, 0 >>
    /\ pc' = "point_returned"
    /\ UNCHANGED << config, seedvars, histvars, isMapped, mapvars, loopvars,
                    cellvars, possvars, callvars, bisvars, vcvars, report,
                    descriptors0, quantity0, descriptors1, quantity1,
                    descriptors2, coverages2, descriptors, c0, get_residual,
                    initial_guesses >>

\* The caller passed an initial guess and the solver raises ValueError,
\* which nothing catches.
PointDirectFail ==
    /\ pc = "point"
    /\ current = NotFound
    /\ c0 # NotFound
    /\ tried_c0' = Append(tried_c0, c0)
    /\ pc' = "point_raised"
    /\ UNCHANGED << config, seedvars, histvars, isMapped, mapvars, loopvars,
                    cellvars, possvars, callvars, bisvars, vcvars, report,
                    descriptors0, quantity0, descriptors1, quantity1,
                    descriptors2, coverages2, descriptors, c0, get_residual,
                    initial_guesses, cvgs >>

\* No initial guess and an empty map: resids,cvgs = zip(*resid_cvg) raises
\* ValueError (nothing to unpack), outside the try.
PointNoSeeds ==
    /\ pc = "point"
    /\ current = NotFound
    /\ c0 = NotFound
    /\ coverage_map = << >>
    /\ pc' = "point_raised"
    /\ UNCHANGED << config, apivars, seedvars, histvars, isMapped, mapvars,
                    loopvars, cellvars, possvars, callvars, bisvars, vcvars,
                    report >>

\* initial_guesses = self.get_initial_coverage_from_map(descriptors)
PointGuesses ==
    /\ pc = "point"
    /\ current = NotFound
    /\ c0 = NotFound
    /\ coverage_map # << >>
    /\ initial_guesses' = get_initial_coverage_from_map
    /\ i' = 0
    /\ pc' = "point_guess"
    /\ UNCHANGED << config, seedvars, histvars, isMapped, mapvars, loopvars,
                    j, checked_dirs, possvars, callvars, bisvars, vcvars, report,
                    descriptors0, quantity0, descriptors1, quantity1,
                    descriptors2, coverages2, descriptors, c0, get_residual,
                    cvgs, tried_c0 >>

\* A pass of the loop over initial_guesses (i is the index of the guess the
\* loop takes next) in which the solver converges: break.
PointSolveOk ==
    /\ pc = "point_guess"
    /\ i < Len(initial_guesses)
    /\ tried_c0' = Append(tried_c0, initial_guesses[i + 1])
    /\ cvgs' = << "sol", descriptors, i + 1 >>
    /\ pc' = "point_returned"
    /\ UNCHANGED << config, seedvars, histvars, isMapped, mapvars, loopvars,
                    cellvars, possvars, callvars, bisvars, vcvars, report,
                    descriptors0, quantity0, descriptors1, quantity1,
                    descriptors2, coverages2, descriptors, c0, get_residual,
                    initial_guesses >>

\* A pass in which the solver raises ValueError: cvgs is None and the loop
\* goes on.
PointSolveFail ==
    /\ pc = "point_guess"
    /\ i < Len(initial_guesses)
    /\ tried_c0' = Append(tried_c0, initial_guesses[i + 1])
    /\ cvgs' = NotFound
    /\ i' = i + 1
    /\ UNCHANGED << config, seedvars, histvars, isMapped, mapvars, loopvars, pc,
                    j, checked_dirs, possvars, callvars, bisvars, vcvars, report,
                    descriptors0, quantity0, descriptors1, quantity1,
                    descriptors2, coverages2, descriptors, c0, get_residual,
                    initial_guesses >>

\* The loop ran out of guesses: return cvgs, which is None.
PointExhausted ==
    /\ pc = "point_guess"
    /\ i = Len(initial_guesses)
    /\ pc' = "point_returned"
    /\ UNCHANGED << config, apivars, seedvars, histvars, isMapped, mapvars,
                    loopvars, cellvars, possvars, callvars, bisvars, vcvars,
                    report >>

\* ------------------------------------------------------------ specification
Next ==
    \/ SweepBegin
    \/ Report
    \/ Deduplicate
    \/ CellSkip
    \/ CellVisit
    \/ MinresidSkipTried
    \/ MinresidSolveOk
    \/ MinresidSolveFail
    \/ MinresidBisect
    \/ MinresidReturnList
    \/ RetryWithBisection
    \/ CellEnd
    \/ PCLoop
    \/ VCSolveOk
    \/ VCSolveFail
    \/ VCExhausted

Spec == Init /\ [][Next]_vars

\* The program is sequential and every step it can take is taken.
FairSpec == Spec /\ WF_vars(Next)

\* The same program on a row of three cells.
RowSpec == RowInit /\ [][Next]_vars

\* The same program on square grids.
SquareSpec == SquareInit /\ [][Next]_vars

\* One call of extrapolate_coverages.
ExtrapNext == Extrapolate

ExtrapSpec == ExtrapInit /\ [][ExtrapNext]_vars

\* One call of get_point_coverage.
PointNext ==
    \/ PointStored
    \/ PointDirectOk
    \/ PointDirectFail
    \/ PointNoSeeds
    \/ PointGuesses
    \/ PointSolveOk
    \/ PointSolveFail
    \/ PointExhausted

PointSpec == PointInit /\ [][PointNext]_vars

\* get_coverage_map from its branch on the maps of a prior run.
ResumeNext ==
    \/ Setup
    \/ SeedOk
    \/ SeedFail
    \/ SeedInvalid
    \/ SeedDone
    \/ Next

ResumeSpec == ResumeInit /\ [][ResumeNext]_vars

\* ------------------------------------------------------------- properties
\* Bit of direction k (1 = first direction) in a cell value.
DirBit(v, k) == (v \div (2 ^ (D - k))) % 2

GridPoints == {GridPoint(c[1], c[2]) : c \in Cells}

InCall == pc \in {"minresid", "PCloop", "VCloop", "returned"}

\* The entries appended to the coverage map since the current call of
\* check_by_minresid began.
NewEntries == {coverage_map[k] : k \in (map_len0 + 1) .. Len(coverage_map)}

\* C1: the bitmask of every cell is at least its value when the current
\* sweep began, every direction bit set then is still set, and the value is
\* in 0 .. 2^D - 1 or is the Mapped sentinel 2^(D+1) - 1.
C1_BitmaskMonotone ==
    \A c \in Cells :
        /\ isMapped[c] >= sweepStart[c]
        /\ \A k \in 1 .. D :
              DirBit(sweepStart[c], k) = 1 => DirBit(isMapped[c], k) = 1
        /\ isMapped[c] \in (0 .. (2 ^ D - 1)) \cup {2 ^ (D + 1) - 1}

\* A sweep has ended in which a partially checked cell gained bits.
C1_Witness ==
    /\ pc = "loop"
    /\ \E c \in Cells : 0 < sweepStart[c] /\ sweepStart[c] < isMapped[c]

\* C2: a sweep is started only as the first sweep or after a sweep that
\* changed the bitmask of some cell, and the loop is left only after at
\* least one sweep and after a sweep that changed no bitmask.
C2_FixedPointLoop ==
    [][ /\ (pc = "loop" /\ pc' = "cell") =>
              (minresiditer = 0 \/ isMapped # sweepStart)
        /\ (pc = "loop" /\ pc' = "dedup") =>
              (minresiditer >= 1 /\ isMapped = sweepStart) ]_vars

\* The loop was left after a sweep without change that followed a sweep
\* with a change.
C2_Witness ==
    pc = "dedup" /\ minresiditer >= 2 /\ isMapped = sweepStart

\* C3: every run leaves the sweep loop, reports and ends.
C3_Terminates == <>(pc = "done")

\* A run has ended whose map holds a point that a bisection reached between
\* two grid points.
C3_Witness ==
    /\ pc = "done"
    /\ \E k \in DOMAIN coverage_map : coverage_map[k][1] \notin GridPoints

\* C4 as stated: the loop runs at most D sweeps.
C4_AtMostDSweeps == minresiditer <= D

\* C4 amended: the loop runs at most (number of cells) * D + 1 sweeps.
C4_SweepBound == minresiditer <= m * n * D + 1

\* The loop was left after more than D sweeps.
C4_Witness == pc = "dedup" /\ minresiditer > D

\* C5: within one call of check_by_minresid the candidates are attempted in
\* ascending order of residual.
C5_AscendingResidualOrder ==
    \A a, b \in DOMAIN attempted :
        a < b => attempted[a].r <= attempted[b].r

\* C6: while no attempt of the call has succeeded no entry for the target
\* point has been appended; the call returns None exactly after its first
\* successful attempt, which is its last attempt, and the map then ends with
\* an entry of the target point holding a quantity solved there; a call that
\* returns a list has appended no entry of the target point.
C6_ResolvedIffRecorded ==
    InCall =>
        IF pc = "returned" /\ possibilities_is_None
        THEN /\ Len(attempted) >= 1
             /\ \A a \in DOMAIN attempted :
                   attempted[a].ok <=> a = Len(attempted)
             /\ Len(coverage_map) > map_len0
             /\ coverage_map[Len(coverage_map)][1] = this_pt
             /\ coverage_map[Len(coverage_map)][2][1] = "sol"
             /\ coverage_map[Len(coverage_map)][2][2] = this_pt
        ELSE /\ \A a \in DOMAIN attempted : ~attempted[a].ok
             /\ \A e \in NewEntries : e[1] # this_pt

\* A call returned None after a failed attempt and a successful bisection.
C6_Witness ==
    /\ pc = "returned" /\ possibilities_is_None
    /\ Len(attempted) >= 2
    /\ attempted[Len(attempted)].how = "bisect"

\* C7: within one call two attempts share a source point only if it is the
\* target point, and no candidate queued for the returned list has the
\* target point as its source.
C7_SourceTriedOnce ==
    InCall =>
        /\ \A a, b \in DOMAIN attempted :
              (a # b /\ attempted[a].sol_pt = attempted[b].sol_pt) =>
                  attempted[a].sol_pt = this_pt
        /\ \A k \in DOMAIN new_possibilities : new_possibilities[k][2] # this_pt
        /\ (pc = "returned" /\ ~possibilities_is_None) =>
              \A k \in DOMAIN possibilities : possibilities[k][2] # this_pt

\* A call returned a list after two Boltzmann guesses were attempted and a
\* repeated candidate of a neighbour was passed over.
C7_Witness ==
    /\ pc = "returned" /\ ~possibilities_is_None
    /\ i_poss - 1 > Len(attempted)
    /\ \E a, b \in DOMAIN attempted :
          a < b /\ attempted[a].sol_pt = this_pt /\ attempted[b].sol_pt = this_pt

\* C8 as stated: after a failed bisection no candidate of the call is
\* attempted.
C8_FailedBisectionIsTerminal ==
    \A a, b \in DOMAIN attempted :
        a < b => ~(attempted[a].how = "bisect" /\ ~attempted[a].ok)

\* C8 amended: a failed bisection is handled inside the call, which goes on:
\* when the loop of a bisecting call ends, every candidate's source point
\* was bisected once, without success, and the list to return holds no more
\* entries than there were failures.
C8_FailedBisectionHandled ==
    (pc = "minresid" /\ bisect /\ i_poss > Len(possibilities)) =>
        /\ \A k \in DOMAIN possibilities :
              \E a \in DOMAIN attempted :
                  /\ attempted[a].sol_pt = possibilities[k][2]
                  /\ attempted[a].how = "bisect"
                  /\ ~attempted[a].ok
        /\ Len(new_possibilities) <= Len(attempted)
        /\ \A k \in DOMAIN new_possibilities :
              \E a \in DOMAIN attempted :
                  attempted[a].sol_pt = new_possibilities[k][2]

\* The loop of a bisecting call ended after two failed bisections.
C8_Witness ==
    /\ pc = "minresid" /\ bisect /\ i_poss > Len(possibilities)
    /\ Len(attempted) >= 2

\* C9: no failure leaves get_coverage_map; a Mapped cell has an entry of its
\* own grid point in the map; the final report counts the cells that are not
\* Mapped and is a failure report exactly when there are some.
C9_NoFailureEscapes ==
    /\ pc # "escaped"
    /\ \A c \in Cells :
          isMapped[c] = 2 ^ (D + 1) - 1 =>
              \E k \in DOMAIN coverage_map :
                  coverage_map[k][1] = GridPoint(c[1], c[2])
    /\ pc \in {"dedup", "done"} =>
          /\ n_unmapped =
                Cardinality({c \in Cells : isMapped[c] # 2 ^ (D + 1) - 1})
          /\ report = IF n_unmapped = 0 THEN "mapper_success" ELSE "mapper_fail"

\* A run with max_bisections = 0 ended with a resolved cell and a cell whose
\* seeds, a neighbour's among them, all failed.
C9_Witness ==
    /\ pc = "done" /\ max_bisections = 0 /\ report = "mapper_fail"
    /\ \E c \in Cells : isMapped[c] = 2 ^ (D + 1) - 1
    /\ \E c \in Cells :
          /\ isMapped[c] = 2 ^ D - 1
          /\ \E k \in 1 .. D :
                /\ search_directions[k] # <<0, 0>>
                /\ << c[1] + search_directions[k][1],
                      c[2] + search_directions[k][2] >> \in Cells

\* C10: one call of bisect_descriptor_line makes at most 2^max_bisections
\* calls of get_next_valid_coverages.
C10_OuterIterationBound ==
    max_bisections >= 1 => PCiter <= 2 ^ max_bisections

\* C11: bisect_descriptor_line goes on to another call of
\* get_next_valid_coverages only while the point solved last differs from
\* the target after rounding both; a bisection that succeeds leaves the
\* target's entry, holding a quantity solved at the target, last in the map;
\* a bisection that fails appends no entry of the target.
C11_ReturnsAtRoundedTarget ==
    /\ (pc = "PCloop" /\ PCiter >= 1) =>
          RoundPoint(solved_descriptors) # RoundPoint(this_pt)
    /\ (InCall /\ bisect /\ attempted # << >>) =>
          IF attempted[Len(attempted)].ok
          THEN /\ coverage_map[Len(coverage_map)][1] = this_pt
               /\ coverage_map[Len(coverage_map)][2] =
                     << "sol", this_pt, Len(coverage_map) - 1 >>
          ELSE \A e \in NewEntries : e[1] # this_pt

\* seq is a prefix of seq2.
IsPrefix(seq, seq2) ==
    Len(seq) <= Len(seq2) /\ \A k \in DOMAIN seq : seq2[k] = seq[k]

\* C12: a solve that succeeds in a bisection appends, in that step, an entry
\* of the solved point holding the quantity solved there, to the coverage
\* map and with the numbers solver to the numbers map; until the
\* deduplication no step removes or changes an entry; and when a bisection
\* reaches its target after solving an intermediate point, the entry of the
\* intermediate point precedes the entry of the target.
C12_SolvedPointsRecorded ==
    [][ /\ (pc = "VCloop" /\ pc' \in {"PCloop", "returned"}) =>
              /\ Len(coverage_map') > Len(coverage_map)
              /\ coverage_map'[Len(coverage_map) + 1] =
                    << current_descriptors,
                       << "sol", current_descriptors, Len(coverage_map) + 1 >> >>
              /\ use_numbers_solver =>
                    /\ Len(numbers_map') > Len(numbers_map)
                    /\ numbers_map'[Len(numbers_map) + 1] =
                          coverage_map'[Len(coverage_map) + 1]
        /\ pc \in {"loop", "cell", "minresid", "PCloop", "VCloop", "returned"} =>
              /\ IsPrefix(coverage_map, coverage_map')
              /\ IsPrefix(numbers_map, numbers_map')
        /\ (pc = "VCloop" /\ pc' = "returned" /\ PCiter >= 2) =>
              \E k \in (map_len0 + 1) .. (Len(coverage_map') - 1) :
                  /\ coverage_map'[k][1] = solved_descriptors
                  /\ solved_descriptors # this_pt
                  /\ coverage_map'[Len(coverage_map')][1] = this_pt ]_vars

\* With the numbers solver, a bisection reached its target after solving an
\* intermediate point.
C12_Witness ==
    /\ pc = "returned" /\ possibilities_is_None /\ use_numbers_solver
    /\ PCiter >= 2
    /\ Len(numbers_map) >= map_len0 + 3

\* C13: in the coverage map that get_coverage_map returns no two entries
\* have points that coincide after rounding.
C13_NoRoundedDuplicates ==
    pc = "done" =>
        \A a, b \in DOMAIN coverage_map :
            a # b => RoundPoint(coverage_map[a][1]) # RoundPoint(coverage_map[b][1])

\* C14: deduplicating the returned coverage map again returns it unchanged.
C14_DedupIdempotent ==
    pc = "done" => nodups(coverage_map) = coverage_map

\* The deduplication removed entries and kept entries of three points.
C14_Witness ==
    /\ pc = "done"
    /\ Len(coverage_map) < Len(map_before)
    /\ Len(coverage_map) >= 3

\* Position in seq of the first entry of point pt.
FirstIndex(seq, pt) ==
    CHOOSE k \in DOMAIN seq :
        seq[k][1] = pt /\ \A l \in 1 .. (k - 1) : seq[l][1] # pt

\* C15: the returned coverage map holds, for every point of the map before
\* the deduplication, exactly its first entry, in the order of these first
\* entries, and nothing else; with the numbers solver the returned numbers
\* map has the same length and the same points in the same order.
C15_DedupKeepsFirst ==
    pc = "done" =>
        /\ \A k \in DOMAIN map_before :
              \E r \in DOMAIN coverage_map :
                  coverage_map[r][1] = map_before[k][1]
        /\ \A r \in DOMAIN coverage_map :
              /\ \E k \in DOMAIN map_before : map_before[k][1] = coverage_map[r][1]
              /\ coverage_map[r] =
                    map_before[FirstIndex(map_before, coverage_map[r][1])]
        /\ \A r1, r2 \in DOMAIN coverage_map :
              r1 < r2 =>
                  FirstIndex(map_before, coverage_map[r1][1])
                      < FirstIndex(map_before, coverage_map[r2][1])
        /\ use_numbers_solver =>
              /\ Len(numbers_map) = Len(coverage_map)
              /\ \A r \in DOMAIN coverage_map :
                    numbers_map[r][1] = coverage_map[r][1]

\* With the numbers solver, the deduplication dropped a later entry of a
\* point whose quantity differs from the quantity of its first entry.
C15_Witness ==
    /\ pc = "done" /\ use_numbers_solver
    /\ \E a, b \in DOMAIN map_before :
          /\ a < b
          /\ map_before[a][1] = map_before[b][1]
          /\ map_before[a][2] # map_before[b][2]
          /\ \E r \in DOMAIN coverage_map : coverage_map[r] = map_before[a]

\* C16: once the outer loop has stopped, the reported number of unmapped
\* cells is the number of cells whose bitmask is not the Mapped sentinel, and
\* success is reported exactly when every cell is Mapped.
C16_ReportMatchesFinalState ==
    pc \in {"dedup", "done"} =>
        /\ n_unmapped = Cardinality({c \in Cells : isMapped[c] # MappedSentinel})
        /\ (report = "mapper_success") <=> (\A c \in Cells : isMapped[c] = MappedSentinel)
        /\ report \in {"mapper_success", "mapper_fail"}

\* A failure report for a grid with a Mapped cell and a cell all of whose
\* directions were checked without success.
C16_Witness ==
    /\ pc = "done" /\ report = "mapper_fail"
    /\ \E c \in Cells : isMapped[c] = MappedSentinel
    /\ \E c \in Cells : isMapped[c] = maxNum

\* C17: every Mapped cell has an entry of its grid point in the coverage
\* map, every entry [p, q] of the map holds a quantity solved at p, and the
\* quantity retrieved for the grid point of a Mapped cell was solved at that
\* grid point.
C17_RetrievedSolutionAtOwnPoint ==
    /\ \A c \in Cells :
          isMapped[c] = MappedSentinel =>
              \E k \in DOMAIN coverage_map :
                  coverage_map[k][1] = GridPoint(c[1], c[2])
    /\ \A k \in DOMAIN coverage_map :
          coverage_map[k][2][1] = "sol" /\ coverage_map[k][2][2] = coverage_map[k][1]
    /\ \A c \in Cells :
          isMapped[c] = MappedSentinel =>
              retrieve_data(coverage_map, GridPoint(c[1], c[2]))[2]
                  = GridPoint(c[1], c[2])

\* The points a lookup is made for: the grid points and the points of the
\* entries of map.
LookupPoints(map) == GridPoints \cup {map[k][1] : k \in DOMAIN map}

\* C18: from the first sweep until the deduplication every step leaves the
\* coverage map a prefix of the next map, and from the first sweep on,
\* across the deduplication too, a lookup that returns a quantity returns
\* the same quantity after every later step.
C18_AppendOnlyStableLookup ==
    [][ /\ (pc \in {"loop", "cell", "minresid", "PCloop", "VCloop", "returned"})
           => IsPrefix(coverage_map, coverage_map')
        /\ (pc \in {"loop", "cell", "minresid", "PCloop", "VCloop", "returned",
                    "dedup", "done"})
           => \A pt \in LookupPoints(coverage_map) :
                 retrieve_data(coverage_map, pt) # NotFound
                     => retrieve_data(coverage_map', pt)
                            = retrieve_data(coverage_map, pt)
      ]_vars

\* The deduplication removed entries and the returned map holds two entries
\* whose points coincide after rounding, the earlier of which a lookup
\* returns.
C18_Witness ==
    /\ pc = "done"
    /\ Len(coverage_map) < Len(map_before)
    /\ \E a, b \in DOMAIN coverage_map :
          /\ a < b
          /\ RoundPoint(coverage_map[a][1]) = RoundPoint(coverage_map[b][1])
          /\ retrieve_data(coverage_map, coverage_map[b][1]) = coverage_map[a][2]

\* Cell c comes before cell d in row-major order.
RowMajorBefore(c, d) == c[1] < d[1] \/ (c[1] = d[1] /\ c[2] < d[2])

\* The cell minresid_iteration is at, inside a sweep.
InSweep == pc \in {"cell", "minresid", "PCloop", "VCloop", "returned"}

\* C19: with no prior map, the cells a sweep has changed are the cell it is
\* at and cells before it in row-major order; and as long as bisection was
\* never invoked, every neighbour seed of a cell in the first sweep is the
\* map's quantity of a cell that became Mapped earlier in this sweep, and
\* the coverage map holds exactly one entry for every Mapped cell and no
\* other entry (but the entry of the cell being left as solved).
C19_OneEntryPerMappedCell ==
    /\ InSweep =>
          \A c \in Cells :
              isMapped[c] # sweepStart[c] =>
                  c = <<i, j>> \/ RowMajorBefore(c, <<i, j>>)
    /\ (pc = "minresid" /\ minresiditer = 1 /\ ~bisected) =>
          \A k \in DOMAIN possibilities :
              possibilities[k][2] # this_pt =>
                  \E c \in Cells :
                      /\ RowMajorBefore(c, <<i, j>>)
                      /\ GridPoint(c[1], c[2]) = possibilities[k][2]
                      /\ isMapped[c] = MappedSentinel
                      /\ sweepStart[c] # MappedSentinel
                      /\ possibilities[k][3]
                            = retrieve_data(coverage_map, GridPoint(c[1], c[2]))
    /\ ~bisected =>
          /\ \A c \in Cells :
                isMapped[c] = MappedSentinel =>
                    Cardinality({k \in DOMAIN coverage_map :
                                    coverage_map[k][1] = GridPoint(c[1], c[2])}) = 1
          /\ \A k \in DOMAIN coverage_map :
                \E c \in Cells :
                    /\ coverage_map[k][1] = GridPoint(c[1], c[2])
                    /\ \/ isMapped[c] = MappedSentinel
                       \/ InSweep /\ c = <<i, j>> /\ possibilities_is_None
          /\ Len(coverage_map) <= Cardinality(Cells)

\* On a square of two by two cells the first sweep solves the last cell
\* from the quantity of a neighbour it Mapped before: four entries, three
\* cells Mapped and the fourth about to be, no bisection.
C19_Witness ==
    /\ pc = "returned" /\ possibilities_is_None /\ ~bisected
    /\ m = 2 /\ n = 2 /\ i = 1 /\ j = 1
    /\ minresiditer = 1
    /\ Len(coverage_map) = 4
    /\ \A c \in Cells \ {<<1, 1>>} :
          isMapped[c] = MappedSentinel /\ sweepStart[c] = 0
    /\ attempted[Len(attempted)].ok
    /\ attempted[Len(attempted)].sol_pt # GridPoint(1, 1)

\* get_coverage_map has raised NotImplementedError and has solved nothing
\* and written to no map.
AbortedUntouched ==
    /\ pc = "aborted" /\ report = "NotImplementedError"
    /\ coverage_map = << >> /\ numbers_map = << >>
    /\ initial_guess_quantities = << >> /\ guess_k = 0
    /\ minresiditer = 0
    /\ \A c \in Cells : isMapped[c] = 0

\* C20 as stated: with the numbers solver and a coverage map of a prior run,
\* get_coverage_map aborts before any solve and leaves the coverage map and
\* the numbers map as they were.
C20_AbortsOnPriorMap ==
    (pc # "start" /\ use_numbers_solver /\ prior_coverage_map # NoMap)
        => AbortedUntouched

\* C20: with the numbers solver, a coverage map of a prior run and no numbers
\* map of a prior run, get_coverage_map aborts before any solve and leaves
\* the coverage map and the numbers map as they were.
C20_AbortsWithoutNumbersMap ==
    (/\ pc # "start"
     /\ use_numbers_solver
     /\ prior_coverage_map # NoMap
     /\ prior_numbers_map = NoMap)
        => AbortedUntouched

\* The abort happened: numbers solver, prior coverage map, no numbers map.
C20_Witness ==
    /\ pc = "aborted"
    /\ use_numbers_solver
    /\ prior_coverage_map # NoMap
    /\ prior_numbers_map = NoMap
    /\ report = "NotImplementedError"

\* Steps of the line from descriptors0 to point d.
StepsTo(d) ==
    LET a == Abs(d[1] - descriptors0[1])
        b == Abs(d[2] - descriptors0[2])
    IN  IF a > b THEN a ELSE b

\* The quantity at descriptors2 of the linear relation through the two
\* solved pairs (an integer for the inputs of ExtrapInit).
ExactAtTarget(k) ==
    quantity0[k] + ((quantity1[k] - quantity0[k]) * StepsTo(descriptors2))
                       \div StepsTo(descriptors1)

\* |x - X| for a float x and an integer X, in units of 2^-sc (sc at least
\* the number of binary places of x).
FloatError(x, X, sc) == Abs(x[1] * 2 ^ (x[2] + sc) - X * 2 ^ sc)
Places(x) == IF x[2] < 0 THEN -x[2] ELSE 0

\* C21 as stated: the extrapolated seed is the exact quantity at
\* descriptors2 of the linear relation through the two solved pairs.
C21_ExtrapolationExact ==
    pc = "extrapolated" =>
        \A k \in DOMAIN coverages2 :
            FloatError(coverages2[k], ExactAtTarget(k), Places(coverages2[k])) = 0

\* C21: the extrapolated seed q0 + (q1 - q0) * |d2 - d0| / |d1 - d0|, as
\* floating-point arithmetic computes it, is within floating-point tolerance
\* of the exact quantity at descriptors2 of the linear relation through the
\* two solved pairs: the error is at most 8 * 2^-MpPrec times
\* |q0| + |exact - q0| (each of the roundings of the computation adds at
\* most 2^-MpPrec of relative error).
C21_ExtrapolationWithinTolerance ==
    pc = "extrapolated" =>
        \A k \in DOMAIN coverages2 :
            LET x == coverages2[k]
                X == ExactAtTarget(k)
            IN  FloatError(x, X, Places(x)) * 2 ^ MpPrec
                    <= 8 * (Abs(quantity0[k]) + Abs(X - quantity0[k]))
                          * 2 ^ Places(x)

\* An extrapolation beyond the later solved point whose result is not
\* exact in one component.
C21_Witness ==
    /\ pc = "extrapolated"
    /\ StepsTo(descriptors2) > StepsTo(descriptors1)
    /\ \E k \in DOMAIN coverages2 :
          FloatError(coverages2[k], ExactAtTarget(k), Places(coverages2[k])) # 0

\* C22: bisect_descriptor_line is entered only in a call of check_by_minresid
\* with bisect = True, only with max_bisections > 0 and only from the
\* solution of another point than the target; that call begins only after
\* the call without bisection has returned a list, and every candidate it
\* is given is a neighbour candidate that the call without bisection
\* attempted by a direct solve that failed; the call without bisection
\* passes a candidate only by attempting it directly or because its source
\* point was tried already.
C22_DirectSolveBeforeBisection ==
    [][ /\ (pc' \in {"PCloop", "VCloop"}) =>
              /\ bisect' /\ max_bisections > 0
              /\ possibilities'[i_poss'][2] # this_pt
              /\ possibilities'[i_poss'][3][1] # "boltz"
        /\ (~bisect /\ bisect') =>
              /\ max_bisections > 0
              /\ pc = "returned" /\ ~possibilities_is_None
              /\ possibilities' # << >>
              /\ \A a \in DOMAIN attempted : attempted[a].how = "solve"
              /\ \A k \in DOMAIN possibilities' :
                    /\ possibilities'[k][2] # this_pt
                    /\ \E a \in DOMAIN attempted :
                          /\ ~attempted[a].ok
                          /\ attempted[a].sol_pt = possibilities'[k][2]
                          /\ attempted[a].c = possibilities'[k][3]
        /\ (pc = "minresid" /\ ~bisect /\ i_poss' = i_poss + 1) =>
              \/ /\ Len(attempted') = Len(attempted) + 1
                 /\ attempted'[Len(attempted')].how = "solve"
                 /\ attempted'[Len(attempted')].sol_pt = sol_pt
              \/ sol_pt \in Range(tried)
      ]_vars

\* Bisection from a neighbour's solution has begun for a cell whose
\* Boltzmann guess and neighbour candidate both failed directly.
C22_Witness ==
    /\ pc = "PCloop" /\ PCiter = 0 /\ bisect
    /\ Len(possibilities) = 1
    /\ checked_dirs # << >>
    /\ \E k \in 1 .. D : search_directions[k] = <<0, 0>> /\ checked_dirs[k] = 1
    /\ isMapped[<<i, j>>] = 0

\* C23: in a call of get_next_valid_coverages from source point
\* solved_descriptors to the target, after k failed attempts (k = VCiter) the
\* point of the next attempt is source + (target - source) / 2^k, so the
\* first attempt is at the target; there are at most max_bisections attempts
\* and halvings; an attempt is made only while VCiter < max_bisections, a
\* successful attempt returns the point attempted, and when max_bisections
\* attempts have failed the call raises ValueError with the last residual.
C23_InnerBisectionSteps ==
    [][ /\ (pc' = "VCloop") =>
              /\ VCiter' <= max_bisections
              /\ \A c \in 1 .. 2 :
                    (current_descriptors'[c] - solved_descriptors'[c]) * 2 ^ VCiter'
                        = this_pt'[c] - solved_descriptors'[c]
        /\ (pc = "VCloop" /\ VCiter' # VCiter) =>
              /\ VCiter < max_bisections
              /\ VCiter' = VCiter + 1
              /\ \/ pc' = "VCloop"
                    /\ current_descriptors'
                          = Midpoint(solved_descriptors, current_descriptors)
                    /\ solved_descriptors' = solved_descriptors
                 \/ pc' # "VCloop"
                    /\ solved_descriptors' = current_descriptors
        /\ (pc = "VCloop" /\ VCiter = max_bisections) =>
              /\ pc' = "minresid"
              /\ resid # Unbound
              /\ attempted' # << >>
              /\ attempted'[Len(attempted')].how = "bisect"
              /\ ~attempted'[Len(attempted')].ok
      ]_vars

\* max_bisections = 2 attempts of one call have failed: at the target and
\* halfway to it; the point is now a quarter of the way.
C23_Witness ==
    /\ pc = "VCloop" /\ max_bisections = 2 /\ VCiter = 2
    /\ current_descriptors # this_pt
    /\ current_descriptors # solved_descriptors
    /\ resid # Unbound

\* The cell direction k of the cell being visited points to, its grid point,
\* and whether the direction is unchecked in cell value v.
DirCell(k) == << i + search_directions[k][1], j + search_directions[k][2] >>
DirPoint(k) == GridPoint(DirCell(k)[1], DirCell(k)[2])
Unchecked(v, k) == DirBit(v, k) = 0

\* C24: when a cell is visited, a direction that is unchecked in the cell's
\* value and points outside the grid becomes checked and gives no
\* candidate; one that points to another cell of the grid without entry in
\* the coverage map stays unchecked and gives no candidate; one that points
\* to another cell with an entry becomes checked and gives exactly one
\* candidate, the entry's quantity (so the candidates of a neighbour are as
\* many as the unchecked directions that point to it).  The checked
\* directions do not change during the attempts, and a cell left unresolved
\* gets them as its value, so the direction is still unchecked at the next
\* visit.
C24_UnfoundNeighbourStaysUnchecked ==
    [][ /\ (pc = "cell" /\ pc' = "minresid") =>
              LET v == isMapped[<<i, j>>]
                  open == {k \in 1 .. D : Unchecked(v, k)}
                  found == {k \in open :
                               /\ DirCell(k) \in Cells
                               /\ DirPoint(k) # this_pt
                               /\ retrieve_data(coverage_map, DirPoint(k)) # NotFound}
              IN  /\ \A k \in 1 .. D : ~Unchecked(v, k) => checked_dirs'[k] = 1
                  /\ \A k \in open :
                        IF DirCell(k) \notin Cells
                        THEN checked_dirs'[k] = 1
                        ELSE IF DirPoint(k) = this_pt
                        THEN checked_dirs'[k] = 1
                        ELSE IF k \in found
                        THEN /\ checked_dirs'[k] = 1
                             /\ Cardinality({c \in DOMAIN possibilities' :
                                    possibilities'[c][2] = DirPoint(k)})
                                  = Cardinality({l \in found : DirPoint(l) = DirPoint(k)})
                             /\ \A c \in DOMAIN possibilities' :
                                    possibilities'[c][2] = DirPoint(k) =>
                                        possibilities'[c][3]
                                            = retrieve_data(coverage_map, DirPoint(k))
                        ELSE /\ checked_dirs'[k] = 0
                             /\ \A c \in DOMAIN possibilities' :
                                    possibilities'[c][2] # DirPoint(k)
                  /\ \A c \in DOMAIN possibilities' :
                        \/ possibilities'[c][2] = this_pt
                        \/ \E k \in found : possibilities'[c][2] = DirPoint(k)
        /\ (InCall /\ pc' \in {"minresid", "PCloop", "VCloop", "returned"})
              => checked_dirs' = checked_dirs
        /\ (pc = "returned" /\ pc' \in {"cell", "loop"} /\ ~possibilities_is_None) =>
              \A k \in 1 .. D : DirBit(isMapped'[<<i, j>>], k) = checked_dirs[k]
      ]_vars

\* In the second sweep a cell has, from a direction its value had left
\* unchecked, a candidate of a neighbour that comes after it in the sweep.
C24_Witness ==
    /\ pc = "minresid" /\ minresiditer = 2 /\ ~bisect /\ i_poss = 1
    /\ \E k \in 1 .. D :
          /\ DirCell(k) \in Cells
          /\ RowMajorBefore(<<i, j>>, DirCell(k))
          /\ Unchecked(sweepStart[<<i, j>>], k)
          /\ sweepStart[<<i, j>>] # 0
          /\ checked_dirs[k] = 1
          /\ \E c \in DOMAIN possibilities : possibilities[c][2] = DirPoint(k)

\* C25: in a visit of a cell, an unchecked self direction (0,0) gives all of
\* the provider's guesses when max_initial_guesses is None and otherwise at
\* most max_initial_guesses of them, as candidates of the cell's own point,
\* and is checked after the visit whatever the solves do; a cell whose self
\* direction is checked gets no Boltzmann candidate; so the visits of a
\* cell that produce Boltzmann candidates are at most one in a run, and
\* Boltzmann candidates are attempted only in the sweep that produced them.
C25_BoltzmannGuessesOnce ==
    [][ /\ (pc = "cell" /\ pc' = "minresid") =>
              LET v == isMapped[<<i, j>>]
                  selfdirs == {k \in 1 .. D :
                                  Unchecked(v, k) /\ search_directions[k] = <<0, 0>>}
                  boltz == {c \in DOMAIN possibilities' :
                               possibilities'[c][3][1] = "boltz"}
                  limit == IF max_initial_guesses = NoLimit
                           \/ n_boltz < max_initial_guesses
                           THEN n_boltz ELSE max_initial_guesses
              IN  /\ Cardinality(boltz) = limit * Cardinality(selfdirs)
                  /\ max_initial_guesses # NoLimit =>
                        Cardinality(boltz) <= max_initial_guesses * Cardinality(selfdirs)
                  /\ \A c \in boltz : possibilities'[c][2] = this_pt
                  /\ \A k \in selfdirs : checked_dirs'[k] = 1
        /\ (pc = "returned" /\ pc' \in {"cell", "loop"}) =>
              \A k \in 1 .. D :
                  search_directions[k] = <<0, 0>> =>
                      DirBit(isMapped'[<<i, j>>], k) = 1
        /\ \A c \in Cells : boltz_visits'[c] <= 1
        /\ \A a \in DOMAIN attempted' :
              attempted'[a].c[1] = "boltz" =>
                  /\ attempted'[a].sol_pt = this_pt'
                  /\ sweepStart'[<<i', j'>>] = 0
      ]_vars

\* A cell whose Boltzmann guesses all failed in the first sweep is visited
\* in the second sweep without Boltzmann candidates.
C25_Witness ==
    /\ pc = "minresid" /\ minresiditer = 2
    /\ boltz_visits[<<i, j>>] = 1
    /\ possibilities # << >>
    /\ \A c \in DOMAIN possibilities : possibilities[c][3][1] # "boltz"
    /\ max_initial_guesses = NoLimit /\ n_boltz > 1

\* C26: a cell whose value is at least maxNum keeps its value in every
\* step; the cell that check_by_minresid or a bisection is working for has a
\* value below maxNum; and no visit of a cell produces a candidate from a
\* neighbour whose seed has failed for that cell in an earlier visit.
C26_ExhaustedCellsAreFinal ==
    [][ /\ \A c \in Cells : isMapped[c] >= maxNum => isMapped'[c] = isMapped[c]
        /\ (pc' \in {"minresid", "PCloop", "VCloop", "returned"}) =>
              isMapped'[<<i', j'>>] < maxNum
        /\ (pc = "cell" /\ pc' = "minresid") =>
              \A c \in DOMAIN possibilities' :
                  << <<i, j>>, possibilities'[c][2] >> \notin failed_seeds
      ]_vars

\* The run ended after three sweeps with a cell at maxNum, every direction
\* checked, for which a neighbour seed had failed, next to a Mapped cell.
C26_Witness ==
    /\ pc = "done" /\ minresiditer >= 3
    /\ \E c \in Cells :
          /\ isMapped[c] = maxNum
          /\ \E d \in Cells :
                /\ isMapped[d] = MappedSentinel
                /\ << c, GridPoint(d[1], d[2]) >> \in failed_seeds

\* The cells whose grid point is point pt after rounding both.
CellsAt(pt) ==
    {c \in Cells : RoundPoint(GridPoint(c[1], c[2])) = RoundPoint(pt)}

\* A step of the seeding loop that takes the next entry of the prior map,
\* in standard mode.
SeedStep ==
    /\ pc = "seed" /\ ~use_numbers_solver
    /\ guess_k <= Len(initial_guess_quantities)
    /\ guess_k' = guess_k + 1

\* What a seeding step may do with an entry, apart from the cell value
\* after a failed solve: nothing for a point off the grid; for a point of
\* the grid, append the point with a quantity solved at it and set the cell
\* to the Mapped sentinel, or append nothing.
SeedStepEffect ==
    LET pt == initial_guess_quantities[guess_k][1]
    IN  /\ pc' = "seed"
        /\ IF CellsAt(pt) = {}
           THEN coverage_map' = coverage_map /\ isMapped' = isMapped
           ELSE \/ /\ coverage_map' =
                        Append(coverage_map,
                               << pt, << "sol", pt, Len(coverage_map) + 1 >> >>)
                   /\ \E c \in CellsAt(pt) :
                         isMapped' = [isMapped EXCEPT ![c] = MappedSentinel]
                \/ coverage_map' = coverage_map

\* The map holds only quantities solved in this run at the entry's point,
\* and a cell that is visited is not Mapped.
SeededMapSound ==
    /\ \A k \in DOMAIN coverage_map' :
          /\ coverage_map'[k][2][1] = "sol"
          /\ coverage_map'[k][2][2] = coverage_map'[k][1]
    /\ (pc = "cell" /\ pc' = "minresid") => isMapped[<<i, j>>] # MappedSentinel
    /\ pc' # "escaped"

\* C27 as stated: in standard mode every entry of the prior map is taken
\* once, in a step of its own; an entry whose rounded point is a grid point
\* is solved at its point: on success the point is appended with the
\* solution and the cell becomes Mapped; on failure nothing is appended and
\* the cell's bitmask is 0; an entry off the grid changes nothing; no
\* exception escapes, no sweep visits a Mapped cell and the map holds only
\* quantities solved in this run.
C27_SeedFailureLeavesZero ==
    [][ /\ SeedStep =>
              /\ SeedStepEffect
              /\ coverage_map' = coverage_map =>
                    \A c \in CellsAt(initial_guess_quantities[guess_k][1]) :
                        isMapped'[c] = 0
        /\ SeededMapSound
      ]_vars

\* C27: the same, but after a failed solve the cell's bitmask is what it
\* was: 0, or the Mapped sentinel when an earlier entry of the prior map
\* was solved for the cell.
C27_SeedFailureLeavesBitmask ==
    [][ /\ SeedStep =>
              /\ SeedStepEffect
              /\ coverage_map' = coverage_map =>
                    /\ isMapped' = isMapped
                    /\ \A c \in Cells : isMapped[c] \in {0, MappedSentinel}
        /\ SeededMapSound
      ]_vars

\* A run in standard mode ended with a cell that was seeded from a prior
\* entry near its grid point and that no sweep visited, and a cell that the
\* sweeps had to visit.
C27_Witness ==
    /\ pc = "done" /\ ~use_numbers_solver
    /\ prior_coverage_map = PriorNearGrid
    /\ isMapped[<<0, 1>>] = MappedSentinel /\ boltz_visits[<<0, 1>>] = 0
    /\ boltz_visits[<<0, 0>>] = 1
    /\ coverage_map[1][1] = <<0, 1>>

\* C28: get_point_coverage returns the stored quantity of a point of the
\* map without calling the solver; for another point and no initial guess
\* from the caller, the seeds it passes to the solver are quantities of the
\* map in ascending order of residual, at most max_initial_guesses of them
\* when that is set; it returns the result of the first seed that
\* converges, and no quantity, without raising, when every seed failed.
C28_PointCoverageSeeds ==
    /\ (pc = "point_returned" /\ current # NotFound) =>
          cvgs = current /\ tried_c0 = << >>
    /\ (pc \in {"point_guess", "point_returned", "point_raised"}
        /\ current = NotFound /\ c0 = NotFound /\ coverage_map # << >>) =>
          /\ \A a \in DOMAIN tried_c0 :
                /\ \E k \in DOMAIN coverage_map : tried_c0[a] = coverage_map[k][2]
                /\ \A b \in DOMAIN tried_c0 :
                      a < b => get_residual[tried_c0[a]] <= get_residual[tried_c0[b]]
          /\ max_initial_guesses # NoLimit => Len(tried_c0) <= max_initial_guesses
          /\ pc # "point_raised"
          /\ pc = "point_returned" =>
                \/ cvgs = << "sol", descriptors, Len(tried_c0) >>
                \/ cvgs = NotFound /\ Len(tried_c0) >= 1

====
